---- MODULE Spec2Model ----
(***************************************************************************)
(* Model of the Sober cookie-profile switcher (src/src/main.rs): the       *)
(* SoberApp state, the directory scan (load_profiles), the activation copy *)
(* (copy_cookie_file), the directory-change flow (apply_directory_change)  *)
(* and the click / refresh / dialog handlers of update(), running against  *)
(* a small file system that can also change behind the program's back.     *)
(***************************************************************************)
EXTENDS Integers, Sequences, FiniteSets, TLC

VARIABLES
    profiles,               \* SoberApp.profiles: sequence of Profile records
    selected_profile,       \* SoberApp.selected_profile: None or a 0-based index
    error_message,          \* SoberApp.error_message: the single status message
    cookie_directory,       \* SoberApp.cookie_directory: path string
    show_directory_dialog,  \* SoberApp.show_directory_dialog
    temp_directory_input,   \* SoberApp.temp_directory_input: text of the dialog
    files,                  \* file system: directory -> file name -> content
    config,                 \* the persisted preference file (directory.txt)
    ext,                    \* number of external file-system changes so far
    steps,                  \* number of handler runs and external changes so far
    last                    \* history: what the step that led to this state did

vars == <<profiles, selected_profile, error_message, cookie_directory,
          show_directory_dialog, temp_directory_input, files, config, ext,
          steps, last>>

----------------------------------------------------------------------------
(* Bounds *)

\* largest number of external changes to the directories' files
MaxExternal == 1

\* largest number of steps (handler runs and external changes) of a run
MaxSteps == 4

----------------------------------------------------------------------------
(* Strings: Rust's str operations, computed character by character *)

\* the characters in use, in ascending byte order
Ascii == " -./0123456789ABCDEFGHIJKLMNOPQRSTUVWXYZ_abcdefghijklmnopqrstuvwxyz~"

AsciiLower == " -./0123456789abcdefghijklmnopqrstuvwxyz_abcdefghijklmnopqrstuvwxyz~"

AsciiUpper == " -./0123456789ABCDEFGHIJKLMNOPQRSTUVWXYZ_ABCDEFGHIJKLMNOPQRSTUVWXYZ~"

CharAt(s, i) == SubSeq(s, i, i)

CharCode(c) == CHOOSE i \in 1..Len(Ascii) : CharAt(Ascii, i) = c

ToLowerChar(c) == CharAt(AsciiLower, CharCode(c))

ToUpperChar(c) == CharAt(AsciiUpper, CharCode(c))

RECURSIVE MapChars(_, _)
MapChars(s, upper) ==
    IF s = "" THEN ""
    ELSE (IF upper THEN ToUpperChar(CharAt(s, 1)) ELSE ToLowerChar(CharAt(s, 1)))
         \o MapChars(SubSeq(s, 2, Len(s)), upper)

to_lowercase(s) == MapChars(s, FALSE)

to_uppercase(s) == MapChars(s, TRUE)

starts_with(s, p) == Len(s) >= Len(p) /\ SubSeq(s, 1, Len(p)) = p

ends_with(s, p) == Len(s) >= Len(p) /\ SubSeq(s, Len(s) - Len(p) + 1, Len(s)) = p

contains(s, c) == \E i \in 1..Len(s) : CharAt(s, i) = c

\* strip_prefix / strip_suffix with the unwrap_or of the caller: None is
\* rendered as the fallback string
strip_prefix(s, p, fallback) ==
    IF starts_with(s, p) THEN SubSeq(s, Len(p) + 1, Len(s)) ELSE fallback

strip_suffix(s, p, fallback) ==
    IF ends_with(s, p) THEN SubSeq(s, 1, Len(s) - Len(p)) ELSE fallback

\* str::cmp: lexicographic comparison of the bytes; a < b
StrLess(a, b) ==
    \E i \in 1..(Len(b)) :
        /\ i - 1 <= Len(a)
        /\ SubSeq(a, 1, i - 1) = SubSeq(b, 1, i - 1)
        /\ \/ i > Len(a)
           \/ CharCode(CharAt(a, i)) < CharCode(CharAt(b, i))

replace(s, from, to) ==
    LET RECURSIVE R(_)
        R(t) == IF t = "" THEN ""
                ELSE (IF CharAt(t, 1) = from THEN to ELSE CharAt(t, 1))
                     \o R(SubSeq(t, 2, Len(t)))
    IN R(s)

\* split_whitespace: the non-empty maximal runs of non-space characters
split_whitespace(s) ==
    LET RECURSIVE W(_, _, _)
        W(t, cur, acc) ==
            IF t = "" THEN (IF cur = "" THEN acc ELSE Append(acc, cur))
            ELSE IF CharAt(t, 1) = " "
                 THEN W(SubSeq(t, 2, Len(t)), "",
                        IF cur = "" THEN acc ELSE Append(acc, cur))
                 ELSE W(SubSeq(t, 2, Len(t)), cur \o CharAt(t, 1), acc)
    IN W(s, "", <<>>)

join(words, sep) ==
    LET RECURSIVE J(_)
        J(ws) == IF ws = <<>> THEN ""
                 ELSE IF Len(ws) = 1 THEN ws[1]
                 ELSE ws[1] \o sep \o J(Tail(ws))
    IN J(words)

\* str::trim on the characters in use
trim(s) ==
    LET RECURSIVE L(_)
        L(t) == IF t # "" /\ CharAt(t, 1) = " " THEN L(SubSeq(t, 2, Len(t))) ELSE t
        RECURSIVE T(_)
        T(t) == IF t # "" /\ CharAt(t, Len(t)) = " " THEN T(SubSeq(t, 1, Len(t) - 1)) ELSE t
    IN T(L(s))

----------------------------------------------------------------------------
(* The environment: paths, directories and the files they hold *)

\* dirs::home_dir()
HomeDir == "/home/u"

\* the hardcoded default of load_saved_directory and of "Reset to Default"
DefaultDirectoryInput == "~/.var/app/org.vinegarhq.Sober/data/sober/"

\* the directories that exist
DefaultDir == "/home/u/.var/app/org.vinegarhq.Sober/data/sober"

AltDir == "/home/u/alt"

\* a directory that holds no cookie file
EmptyDir == "/home/u/empty"

Dirs == {DefaultDir, AltDir, EmptyDir}

\* a path that exists and is a regular file
RegularFile == "/home/u/notes.txt"

\* the file names a directory may hold
NameSeq == <<"cookies", "cookies_alice.txt", "cookies_bob", "cookies_bob.txt",
            "cookies_bob.log", "notes.log">>

Names == {NameSeq[i] : i \in 1..Len(NameSeq)}

\* file contents; Absent marks a name with no file, Truncated the content a
\* copy leaves in its target when it fails after the target was opened
Absent == "<absent>"

Truncated == "<truncated>"

ExternalContent == "<external>"

\* the content each file has when it exists in the initial state: every
\* file has a content of its own
OriginalContent(d, n) == d \o "/" \o n

Contents == {Truncated, ExternalContent} \cup
            {OriginalContent(d, n) : d \in Dirs, n \in Names}

\* a path names the same file with or without trailing separators
RECURSIVE Normalize(_)
Normalize(p) ==
    IF Len(p) > 1 /\ CharAt(p, Len(p)) = "/" THEN Normalize(SubSeq(p, 1, Len(p) - 1))
    ELSE p

\* Path::exists / Path::is_dir
exists(p) == Normalize(p) \in Dirs \cup {RegularFile}

is_dir(p) == Normalize(p) \in Dirs

\* the files present in directory d of file system f
Listing(f, d) == {n \in Names : f[d][n] # Absent}

\* the files that are created, rewritten or deleted behind the program's back
ExternalNames == {"cookies_alice.txt"}

\* the text fields the user may type into the directory dialog
DirectoryInputs == {"~/alt", "/nope", RegularFile, EmptyDir}

----------------------------------------------------------------------------
(* Pure functions of SoberApp *)

expand_path(path) ==
    IF starts_with(path, "~/")
    THEN HomeDir \o "/" \o SubSeq(path, 3, Len(path))
    ELSE path

\* Title Case of a snake_case or kebab-case name
format_profile_name(name) ==
    LET words == split_whitespace(replace(replace(name, "_", " "), "-", " "))
        title(w) == to_uppercase(CharAt(w, 1)) \o to_lowercase(SubSeq(w, 2, Len(w)))
    IN  join([i \in 1..Len(words) |-> title(words[i])], " ")

\* the palette has ten entries; an icon is modelled by its palette position
PaletteSize == 10

get_profile_emoji(index) == index % PaletteSize

\* a filter that forgets the check of the extension
is_cookie_file_any_extension(file_name) == starts_with(file_name, "cookies_")

\* the filter of load_profiles: which directory entries are cookie files
is_cookie_file(file_name) ==
    /\ starts_with(file_name, "cookies_")
    /\ (ends_with(file_name, ".txt") \/ ~contains(file_name, "."))

\* the raw identifier load_profiles extracts from a cookie file's name
profile_name_of(file_name) ==
    IF ends_with(file_name, ".txt")
    THEN strip_suffix(strip_prefix(file_name, "cookies_", "Unknown"), ".txt", "Unknown")
    ELSE strip_prefix(file_name, "cookies_", "Unknown")

\* all orders in which read_dir may return a set of directory entries
RECURSIVE Enumerations(_)
Enumerations(S) ==
    IF S = {} THEN {<<>>}
    ELSE UNION {{<<n>> \o e : e \in Enumerations(S \ {n})} : n \in S}

\* cookie_files after the loop over the entries: the (profile_name, file_name)
\* pairs of the entries that pass the filter, in the order read_dir returned
\* them. The entries that fail the filter leave no trace in the vector, so
\* the possible vectors are the enumerations of the entries that pass.
cookie_files_of(listing) ==
    {[i \in 1..Len(keep) |-> <<profile_name_of(keep[i]), keep[i]>>] :
        keep \in Enumerations({n \in listing : is_cookie_file(n)})}

\* Vec::sort_by(|a, b| a.0.cmp(&b.0)): a stable sort on the profile name
RECURSIVE sort_by_name(_)
sort_by_name(pairs) ==
    IF pairs = <<>> THEN <<>>
    ELSE LET sorted == sort_by_name(SubSeq(pairs, 1, Len(pairs) - 1))
             e == pairs[Len(pairs)]
             \* e goes after every element that is not greater than it
             k == Cardinality({i \in 1..Len(sorted) : ~StrLess(e[1], sorted[i][1])})
         IN  SubSeq(sorted, 1, k) \o <<e>> \o SubSeq(sorted, k + 1, Len(sorted))

\* the Profile records built from the sorted pairs; listing is the set of
\* files of the directory (for the optional avatar image)
make_profiles(sorted, listing) ==
    [i \in 1..Len(sorted) |->
        [name         |-> sorted[i][1],
         cookie_file  |-> sorted[i][2],
         display_name |-> format_profile_name(sorted[i][1]),
         emoji        |-> get_profile_emoji(i - 1),
         image        |-> (to_lowercase(sorted[i][1]) \o ".png") \in listing]]

\* the profile lists a scan of a directory holding the files of listing may
\* produce, one for each enumeration order
scan_profiles(listing) ==
    {make_profiles(sort_by_name(cookie_files), listing) :
        cookie_files \in cookie_files_of(listing)}

----------------------------------------------------------------------------
(* State-changing operations, as functions of the state they read *)

\* Option<usize>::None
None == -1

\* the status messages, by the format string that produces them
NoMessage == [kind |-> "none", arg |-> ""]

NoCookieFilesMessage(dir) == [kind |-> "no_cookie_files", arg |-> dir]

ScanErrorMessage(dir) == [kind |-> "scan_error", arg |-> dir]

SwitchedMessage(display_name) == [kind |-> "switched", arg |-> display_name]

CopyFailedMessage(source_path) == [kind |-> "copy_failed", arg |-> source_path]

DirectoryChangedMessage == [kind |-> "directory_changed", arg |-> ""]

InvalidDirectoryMessage == [kind |-> "invalid_directory", arg |-> ""]

\* the persisted preference file: absent, or holding a text
NoConfig == [present |-> FALSE, text |-> ""]

ConfigWith(text) == [present |-> TRUE, text |-> text]

\* load_saved_directory: the directory the program starts in
load_saved_directory(cfg) ==
    LET saved_dir == trim(cfg.text)
    IN  IF cfg.present /\ saved_dir # "" /\ exists(expand_path(saved_dir))
        THEN expand_path(saved_dir)
        ELSE expand_path(DefaultDirectoryInput)

\* a save that never writes
save_directory_skipped(cfg, dir, outcome) == cfg

\* save_directory: fs::write of the directory's string form; the write may
\* fail before the file is opened (file untouched) or after it was truncated;
\* the failure is only logged
SaveOutcomes == {"ok", "open_failed", "write_failed"}

save_directory(cfg, dir, outcome) ==
    CASE outcome = "ok"           -> ConfigWith(dir)
      [] outcome = "open_failed"  -> cfg
      [] outcome = "write_failed" -> ConfigWith("")

\* load_profiles: the profile list and the status message a scan of
\* directory dir leaves, for every order read_dir may enumerate the files in
load_profiles(dir, f) ==
    IF is_dir(dir)
    THEN {[profiles      |-> ps,
           error_message |-> IF ps = <<>> THEN NoCookieFilesMessage(dir)
                             ELSE NoMessage]
          : ps \in scan_profiles(Listing(f, Normalize(dir)))}
    ELSE {[profiles |-> <<>>, error_message |-> ScanErrorMessage(dir)]}

\* PathBuf::join of the cookie directory and a file name
join_path(dir, file_name) ==
    IF ends_with(dir, "/") THEN dir \o file_name ELSE dir \o "/" \o file_name

\* fs::copy(source, target): opens the source first, then creates/truncates
\* the target and copies; the outcomes the file system allows
CopyOutcomes(dir, f, cookie_file) ==
    IF ~is_dir(dir) \/ f[Normalize(dir)][cookie_file] = Absent
    THEN {"source_missing"}
    ELSE {"ok", "target_open_failed", "write_failed"}

\* a copy that creates the target before it opens the source
copy_result_target_first(dir, f, cookie_file, outcome) ==
    LET d == Normalize(dir)
    IN  CASE outcome = "ok" ->
               [f EXCEPT ![d]["cookies"] = f[d][cookie_file]]
          [] outcome \in {"write_failed", "source_missing"} ->
               [f EXCEPT ![d]["cookies"] = Truncated]
          [] OTHER -> f

\* a copy that does not overwrite an existing target
copy_result_no_overwrite(dir, f, cookie_file, outcome) ==
    LET d == Normalize(dir)
    IN  CASE outcome = "ok" /\ f[d]["cookies"] = Absent ->
               [f EXCEPT ![d]["cookies"] = f[d][cookie_file]]
          [] outcome = "write_failed" ->
               [f EXCEPT ![d]["cookies"] = Truncated]
          [] OTHER -> f

\* a move in place of a copy: the source is gone afterwards
copy_result_move(dir, f, cookie_file, outcome) ==
    LET d == Normalize(dir)
    IN  CASE outcome = "ok" ->
               [f EXCEPT ![d]["cookies"] = f[d][cookie_file], ![d][cookie_file] = Absent]
          [] outcome = "write_failed" ->
               [f EXCEPT ![d]["cookies"] = Truncated]
          [] OTHER -> f

\* the file system after fs::copy with the given outcome
copy_result(dir, f, cookie_file, outcome) ==
    LET d == Normalize(dir)
    IN  CASE outcome = "ok" ->
               [f EXCEPT ![d]["cookies"] = f[d][cookie_file]]
          [] outcome = "write_failed" ->
               [f EXCEPT ![d]["cookies"] = Truncated]
          [] OTHER -> f

\* the status message copy_cookie_file leaves
copy_message(dir, profile, outcome) ==
    IF outcome = "ok"
    THEN SwitchedMessage(profile.display_name)
    ELSE CopyFailedMessage(join_path(dir, profile.cookie_file))

\* the index the click handler resolves a tile to: the first profile of the
\* list with the tile's name (0-based)
global_index(ps, k) ==
    (CHOOSE i \in 1..Len(ps) :
        /\ ps[i].name = ps[k].name
        /\ \A j \in 1..(i - 1) : ps[j].name # ps[k].name) - 1

\* what the step that led to the current state did: the handler that ran
\* ("external" for a change behind the program's back), how its copy and its
\* preference write ended, and whether it rescanned (history, not program state)
Did(op, copy, save, rescan) == [op |-> op, copy |-> copy, save |-> save, rescan |-> rescan]

----------------------------------------------------------------------------
(* Initial state: SoberApp::new on some file system *)

\* the directory contents the program starts on
InitialListing ==
    [d \in Dirs |->
        IF d = DefaultDir
        THEN {"cookies_alice.txt", "cookies_bob", "cookies_bob.log", "notes.log"}
        ELSE IF d = AltDir
        THEN {"cookies", "cookies_bob", "cookies_bob.txt"}
        ELSE {"notes.log"}]

FilesOf(listingOf) ==
    [d \in Dirs |-> [n \in Names |->
        IF n \in listingOf[d] THEN OriginalContent(d, n) ELSE Absent]]

\* the preference file the program may start on
InitialConfigs == {NoConfig, ConfigWith("~/alt "), ConfigWith(RegularFile)}

Init ==
    \E cfg \in InitialConfigs :
        /\ files = FilesOf(InitialListing)
        /\ config = cfg
        /\ cookie_directory = load_saved_directory(cfg)
        /\ \E r \in load_profiles(load_saved_directory(cfg), FilesOf(InitialListing)) :
               /\ profiles = r.profiles
               /\ error_message = r.error_message
        /\ selected_profile = None
        /\ show_directory_dialog = FALSE
        /\ temp_directory_input = load_saved_directory(cfg)
        /\ ext = 0
        /\ steps = 0
        /\ last = Did("new", "none", "none", TRUE)

----------------------------------------------------------------------------
(* Handlers *)

\* every step counts towards the length of the run
Tick == steps < MaxSteps /\ steps' = steps + 1

\* the refresh button of the title bar
Refresh ==
    /\ Tick
    /\ \E r \in load_profiles(cookie_directory, files) :
           /\ profiles' = r.profiles
           /\ error_message' = r.error_message
    /\ last' = Did("refresh", "none", "none", TRUE)
    /\ UNCHANGED <<selected_profile, cookie_directory, show_directory_dialog,
                   temp_directory_input, files, config, ext>>

\* a click on the tile at position k (1-based) of the displayed list
ClickProfile(k) ==
    /\ Tick
    /\ k \in 1..Len(profiles)
    /\ LET gi == global_index(profiles, k)
       IN  IF selected_profile = gi
           THEN /\ selected_profile' = None
                /\ last' = Did("deselect", "none", "none", FALSE)
                /\ UNCHANGED <<error_message, files>>
           ELSE /\ selected_profile' = gi
                /\ \E outcome \in CopyOutcomes(cookie_directory, files,
                                               profiles[gi + 1].cookie_file) :
                       /\ files' = copy_result(cookie_directory, files,
                                               profiles[gi + 1].cookie_file, outcome)
                       /\ error_message' = copy_message(cookie_directory,
                                                        profiles[gi + 1], outcome)
                       /\ last' = Did("select", outcome, "none", FALSE)
    /\ UNCHANGED <<profiles, cookie_directory, show_directory_dialog,
                   temp_directory_input, config, ext>>

\* the "Change Directory" button
OpenDirectoryDialog ==
    /\ Tick
    /\ show_directory_dialog' = TRUE
    /\ temp_directory_input' = cookie_directory
    /\ last' = Did("dialog", "none", "none", FALSE)
    /\ UNCHANGED <<profiles, selected_profile, error_message, cookie_directory,
                   files, config, ext>>

\* the text field of the directory dialog
EditDirectoryInput(text) ==
    /\ Tick
    /\ show_directory_dialog
    /\ temp_directory_input # text
    /\ temp_directory_input' = text
    /\ last' = Did("dialog", "none", "none", FALSE)
    /\ UNCHANGED <<profiles, selected_profile, error_message, cookie_directory,
                   show_directory_dialog, files, config, ext>>

\* the "Reset to Default" button of the directory dialog
ResetToDefault ==
    /\ Tick
    /\ show_directory_dialog
    /\ temp_directory_input' = DefaultDirectoryInput
    /\ last' = Did("dialog", "none", "none", FALSE)
    /\ UNCHANGED <<profiles, selected_profile, error_message, cookie_directory,
                   show_directory_dialog, files, config, ext>>

\* the "Cancel" button of the directory dialog
CancelDirectoryDialog ==
    /\ Tick
    /\ show_directory_dialog
    /\ show_directory_dialog' = FALSE
    /\ last' = Did("dialog", "none", "none", FALSE)
    /\ UNCHANGED <<profiles, selected_profile, error_message, cookie_directory,
                   temp_directory_input, files, config, ext>>

\* a validation that, like load_saved_directory, only asks whether the path exists
valid_directory_exists_only(new_path) == exists(new_path)

\* the validation of apply_directory_change
valid_directory(new_path) == exists(new_path) /\ is_dir(new_path)

\* a directory change that rescans before it replaces the directory
apply_directory_change_scan_first ==
    /\ Tick
    /\ show_directory_dialog
    /\ LET new_path == expand_path(temp_directory_input)
       IN  IF valid_directory(new_path)
           THEN /\ cookie_directory' = new_path
                /\ \E outcome \in SaveOutcomes :
                       /\ config' = save_directory(config, new_path, outcome)
                       /\ last' = Did("apply", "none", outcome, TRUE)
                /\ \E r \in load_profiles(cookie_directory, files) : profiles' = r.profiles
                /\ selected_profile' = None
                /\ show_directory_dialog' = FALSE
                /\ error_message' = DirectoryChangedMessage
           ELSE /\ error_message' = InvalidDirectoryMessage
                /\ last' = Did("apply_rejected", "none", "none", FALSE)
                /\ UNCHANGED <<cookie_directory, config, profiles, selected_profile,
                               show_directory_dialog>>
    /\ UNCHANGED <<temp_directory_input, files, ext>>

\* the "Apply" button (or Enter) of the directory dialog
apply_directory_change ==
    /\ Tick
    /\ show_directory_dialog
    /\ LET new_path == expand_path(temp_directory_input)
       IN  IF valid_directory(new_path)
           THEN /\ cookie_directory' = new_path
                /\ \E outcome \in SaveOutcomes :
                       /\ config' = save_directory(config, new_path, outcome)
                       /\ last' = Did("apply", "none", outcome, TRUE)
                /\ \E r \in load_profiles(new_path, files) : profiles' = r.profiles
                /\ selected_profile' = None
                /\ show_directory_dialog' = FALSE
                /\ error_message' = DirectoryChangedMessage
           ELSE /\ error_message' = InvalidDirectoryMessage
                /\ last' = Did("apply_rejected", "none", "none", FALSE)
                /\ UNCHANGED <<cookie_directory, config, profiles, selected_profile,
                               show_directory_dialog>>
    /\ UNCHANGED <<temp_directory_input, files, ext>>

----------------------------------------------------------------------------
(* The environment: the files of the cookie directory change on disk between *)
(* the program's operations                                                 *)

ExternalWrite(d, n, c) ==
    /\ Tick
    /\ ext < MaxExternal
    /\ d = Normalize(cookie_directory)
    /\ files[d][n] # c
    /\ files' = [files EXCEPT ![d][n] = c]
    /\ ext' = ext + 1
    /\ last' = Did("external", "none", "none", FALSE)
    /\ UNCHANGED <<profiles, selected_profile, error_message, cookie_directory,
                   show_directory_dialog, temp_directory_input, config>>

ExternalDelete(d, n) ==
    /\ Tick
    /\ ext < MaxExternal
    /\ d = Normalize(cookie_directory)
    /\ files[d][n] # Absent
    /\ files' = [files EXCEPT ![d][n] = Absent]
    /\ ext' = ext + 1
    /\ last' = Did("external", "none", "none", FALSE)
    /\ UNCHANGED <<profiles, selected_profile, error_message, cookie_directory,
                   show_directory_dialog, temp_directory_input, config>>

----------------------------------------------------------------------------

Next ==
    \/ Refresh
    \/ \E k \in 1..Len(NameSeq) : ClickProfile(k)
    \/ OpenDirectoryDialog
    \/ \E text \in DirectoryInputs : EditDirectoryInput(text)
    \/ ResetToDefault
    \/ CancelDirectoryDialog
    \/ apply_directory_change
    \/ \E d \in Dirs, n \in ExternalNames : ExternalWrite(d, n, ExternalContent)
    \/ \E d \in Dirs, n \in ExternalNames : ExternalDelete(d, n)

Spec == Init /\ [][Next]_vars

TypeOK ==
    /\ selected_profile \in {None} \cup (0..Len(NameSeq))
    /\ show_directory_dialog \in BOOLEAN
    /\ ext \in 0..MaxExternal
    /\ steps \in 0..MaxSteps
    /\ \A d \in Dirs, n \in Names : files[d][n] \in Contents \cup {Absent}

----------------------------------------------------------------------------------------------------------------------------------------------
(* States the properties speak about *)

\* the directory the program works in, as the file system knows it
CurrentDir == Normalize(cookie_directory)

\* the files of the current directory (none when it is not a directory)
CurrentListing == IF is_dir(cookie_directory) THEN Listing(files, CurrentDir) ELSE {}

\* the step that led to the current state scanned the directory: the
\* construction, a refresh or an accepted directory change
JustScanned == last.rescan

\* the extension of a file name: the text after its last dot, if it has a dot
ExtensionOf(n) ==
    LET dots == {i \in 1..Len(n) : CharAt(n, i) = "."}
    IN  IF dots = {} THEN <<>>
        ELSE <<SubSeq(n, (CHOOSE i \in dots : \A j \in dots : j <= i) + 1, Len(n))>>

\* the naming convention of profile source files: cookies_<id> or cookies_<id>.txt
FollowsConvention(n) ==
    /\ Len(n) >= 8 /\ SubSeq(n, 1, 8) = "cookies_"
    /\ ExtensionOf(n) \in {<<>>, <<"txt">>}

\* the cookie files the profile list stands for
ProfileFiles == {profiles[i].cookie_file : i \in 1..Len(profiles)}

\* the profile list has one profile for exactly the files of the current
\* directory that follow the convention
OneProfilePerConventionFile ==
    /\ ProfileFiles = {n \in CurrentListing : FollowsConvention(n)}
    /\ Len(profiles) = Cardinality(ProfileFiles)

----------------------------------------------------------------------------
(* Properties *)

\* C1: every scan (at startup, on refresh, on an accepted directory change)
\* produces one profile for exactly the files of the scanned directory whose
\* name begins with cookies_ and either ends with .txt or has no extension;
\* cookies_ files with another extension, the active file cookies and
\* unrelated files are excluded.
C1_ScanSelectsConventionFiles == JustScanned => OneProfilePerConventionFile

\* a refresh has scanned a directory that mixes both accepted forms with a
\* wrongly suffixed cookies_ file, the active file and an unrelated file
C1_Witness ==
    /\ last.op = "refresh"
    /\ {"cookies", "cookies_bob.log", "notes.log"} \subseteq CurrentListing
    /\ ProfileFiles = {"cookies_alice.txt", "cookies_bob"}
    /\ Len(profiles) = 2

\* C2: the names of the current profile list are pairwise distinct.
C2_NamesDistinct ==
    \A i, j \in 1..Len(profiles) : i # j => profiles[i].name # profiles[j].name

\* C3: a click whose activation copy fails leaves selected_profile as it was.
C3_SelectionOnlyOnSuccess ==
    [][(last'.op = "select" /\ last'.copy # "ok") =>
           selected_profile' = selected_profile]_vars

\* C4: selected_profile is None right after every rescan, whether a refresh
\* or an accepted directory change triggered it.
C4_RescanClearsSelection == JustScanned => selected_profile = None

\* C5: activating a profile whose source file is gone reports the copy
\* failure in the status message and leaves every file, the active file
\* cookies included, as it was.
C5_MissingSourceLeavesActiveFile ==
    [][(/\ last'.op = "select"
        /\ files[CurrentDir][profiles'[selected_profile' + 1].cookie_file] = Absent) =>
           /\ files' = files
           /\ error_message'.kind = "copy_failed"
           /\ error_message'.arg =
                  join_path(cookie_directory, profiles'[selected_profile' + 1].cookie_file)]_vars

\* an activation failed on a missing source while an earlier activation's
\* copy is in the active file
C5_Witness ==
    /\ last.op = "select" /\ last.copy = "source_missing"
    /\ error_message.kind = "copy_failed"
    /\ files[CurrentDir][profiles[selected_profile + 1].cookie_file] = Absent
    /\ files[CurrentDir]["cookies"] \notin {Absent, Truncated}

\* the step that led to the next state was the Apply of the directory dialog
ApplyStep == last'.op \in {"apply", "apply_rejected"}

\* the path the user entered, with a leading home marker replaced by the
\* home directory
HomeExpanded(text) ==
    IF Len(text) >= 2 /\ CharAt(text, 1) = "~" /\ CharAt(text, 2) = "/"
    THEN "/home/u/" \o SubSeq(text, 3, Len(text))
    ELSE text

\* the path names a directory that exists
IsExistingDirectory(p) == \E d \in Dirs : p = d \/ p = d \o "/"

\* the activation the step performed: the profile and its source file
ActivatedProfile == profiles'[selected_profile' + 1]

\* C6: a successful activation of profile p leaves in cookies the content
\* the source file of p had at the time of the copy, whatever cookies held
\* before, and the status message reports the switch to p.
C6_ActivationCopiesSource ==
    [][(last'.op = "select" /\ last'.copy = "ok") =>
           /\ files'[CurrentDir]["cookies"] = files[CurrentDir][ActivatedProfile.cookie_file]
           /\ files'[CurrentDir]["cookies"] # Absent
           /\ error_message' = SwitchedMessage(ActivatedProfile.display_name)]_vars

\* an activation succeeded in the directory whose active file held a content
\* of its own: the active file now holds the content of the profile's source
C6_Witness ==
    /\ last.op = "select" /\ last.copy = "ok"
    /\ CurrentDir = AltDir
    /\ files[AltDir]["cookies"] = OriginalContent(AltDir, profiles[selected_profile + 1].cookie_file)
    /\ error_message.kind = "switched"

\* C7: an activation, successful or not, changes no file other than cookies
\* of the current directory, and its source is never the file cookies.
C7_ActivationTouchesOnlyActiveFile ==
    [][last'.op = "select" =>
           /\ ActivatedProfile.cookie_file # "cookies"
           /\ \A d \in Dirs, n \in Names :
                  (d # CurrentDir \/ n # "cookies") => files'[d][n] = files[d][n]]_vars

\* an activation failed after the active file was opened: the active file is
\* truncated, the source and every other file have the content they had
C7_Witness ==
    /\ last.op = "select" /\ last.copy = "write_failed"
    /\ files[CurrentDir]["cookies"] = Truncated
    /\ files[CurrentDir][profiles[selected_profile + 1].cookie_file]
           = OriginalContent(CurrentDir, profiles[selected_profile + 1].cookie_file)
    /\ \A d \in Dirs, n \in Names \ {"cookies"} :
           files[d][n] \in {Absent, OriginalContent(d, n)}

\* C8: a directory change to a path that, home-expanded, is not an existing
\* directory is rejected whole: directory, profile list, selection and
\* preference file stay as they were, nothing is rescanned, and only the
\* status message changes, to the invalid-directory error.
C8_InvalidDirectoryRejected ==
    [][(ApplyStep /\ ~IsExistingDirectory(HomeExpanded(temp_directory_input))) =>
           /\ last'.op = "apply_rejected" /\ ~last'.rescan /\ last'.save = "none"
           /\ UNCHANGED <<cookie_directory, profiles, selected_profile, config, files,
                          show_directory_dialog, temp_directory_input>>
           /\ error_message' = InvalidDirectoryMessage]_vars

\* a change to a path that is not a directory was rejected while a profile
\* list and a selection were there to keep
C8_Witness ==
    /\ last.op = "apply_rejected"
    /\ temp_directory_input \in {"/nope", RegularFile}
    /\ error_message = InvalidDirectoryMessage
    /\ profiles # <<>>
    /\ selected_profile # None

\* C9: a directory change to an existing directory sets cookie_directory to
\* the home-expanded path and replaces the profile list by the result of
\* scanning the new directory: every profile is a file of the new directory,
\* and the list is one a fresh scan of it yields.
C9_DirectoryChangeRescans ==
    [][(ApplyStep /\ IsExistingDirectory(HomeExpanded(temp_directory_input))) =>
           /\ last'.op = "apply"
           /\ cookie_directory' = HomeExpanded(temp_directory_input)
           /\ OneProfilePerConventionFile'
           /\ profiles' \in scan_profiles(Listing(files', Normalize(cookie_directory')))]_vars

\* the program left the default directory, where it had activated a profile,
\* for the other directory, whose files the profile list now shows
C9_Witness ==
    /\ last.op = "apply" /\ last.save = "ok"
    /\ temp_directory_input = "~/alt"
    /\ cookie_directory = "/home/u/alt"
    /\ files[DefaultDir]["cookies"] # Absent
    /\ ProfileFiles = {"cookies_bob", "cookies_bob.txt"}

\* C10 as claimed: a directory change either persists the new directory and
\* rescans, or does neither.
C10_PersistAndRescanTogether ==
    [][ApplyStep =>
           \/ /\ last'.rescan
              /\ config' = ConfigWith(cookie_directory')
           \/ /\ ~last'.rescan
              /\ UNCHANGED <<config, cookie_directory, profiles>>]_vars

\* C10 as amended: a rejected directory change neither persists nor rescans
\* and leaves the state untouched; an accepted one always changes the
\* directory and rescans, and its persistence is best effort: the preference
\* file names the new directory when the write succeeds, and otherwise keeps
\* its old content or is left empty.
C10_RescanAlwaysPersistBestEffort ==
    [][ApplyStep =>
           \/ /\ last'.op = "apply_rejected" /\ ~last'.rescan
              /\ UNCHANGED <<config, cookie_directory, profiles, selected_profile>>
           \/ /\ last'.op = "apply" /\ last'.rescan
              /\ cookie_directory' = HomeExpanded(temp_directory_input)
              /\ OneProfilePerConventionFile'
              /\ last'.save = "ok" => config' = ConfigWith(cookie_directory')
              /\ last'.save = "open_failed" => config' = config
              /\ last'.save = "write_failed" => config' = ConfigWith("")]_vars

\* the directory changed and was rescanned although the preference file
\* could not be written: it still does not name the new directory
C10_Witness ==
    /\ last.op = "apply" /\ last.save = "open_failed" /\ last.rescan
    /\ CurrentDir = AltDir
    /\ config = NoConfig
    /\ OneProfilePerConventionFile

\* the content of the preference file as the program reads it at startup
PersistedPath == HomeExpanded(trim(config.text))

\* C11: at startup the cookie directory is the hardcoded default whenever the
\* preference file is absent, empty or whitespace-only, or its trimmed,
\* home-expanded content does not denote an existing directory (an existing
\* regular file included); it is the persisted path only when that path
\* exists and is a directory.
C11_SavedDirectoryOnlyIfDirectory ==
    last.op = "new" =>
        cookie_directory =
            IF /\ config.present
               /\ trim(config.text) # ""
               /\ IsExistingDirectory(PersistedPath)
            THEN PersistedPath
            ELSE HomeExpanded(DefaultDirectoryInput)

\* C12: the list a scan produces is sorted ascending by identifier, two
\* entries with the same identifier are ordered by their filename, and the
\* entry at position i carries icon i mod 10; the order is then a function of
\* the set of filenames alone, whatever order the directory was enumerated in.
C12_OrderByNameThenFilename ==
    JustScanned =>
        /\ \A i, j \in 1..Len(profiles) :
               i < j =>
                   \/ StrLess(profiles[i].name, profiles[j].name)
                   \/ /\ profiles[i].name = profiles[j].name
                      /\ StrLess(profiles[i].cookie_file, profiles[j].cookie_file)
        /\ \A i \in 1..Len(profiles) :
               profiles[i].emoji = (i - 1) % PaletteSize

\* the status message is one of the two diagnostics a scan produces
DiscoveryDiagnostic == error_message.kind \in {"no_cookie_files", "scan_error"}

\* C13: after every scan, whatever triggered it (startup, refresh or an
\* accepted directory change), the status message is a discovery diagnostic
\* exactly when the resulting list is empty: the scan error when the directory
\* cannot be enumerated, the message naming the convention and the scanned
\* directory when it holds no matching file, and no diagnostic when at least
\* one profile was found.
C13_DiagnosticIffEmptyList ==
    JustScanned =>
        /\ DiscoveryDiagnostic <=> profiles = <<>>
        /\ ~is_dir(cookie_directory) =>
               /\ profiles = <<>>
               /\ error_message = ScanErrorMessage(cookie_directory)
        /\ (is_dir(cookie_directory) /\ ProfileFiles = {}) =>
               error_message = NoCookieFilesMessage(cookie_directory)

\* the selection is absent or an index into the current list
SelectionInRange ==
    selected_profile = None \/ selected_profile \in 0..(Len(profiles) - 1)

\* a step that leaves the selection index as it was (a click always changes
\* it, so the index was set at an earlier step)
SelectionKept == selected_profile # None /\ selected_profile' = selected_profile

\* C14: in every reachable state the selection is absent or an index strictly
\* below the length of the list, and as long as the index stays it designates
\* the profile it designated when it was set: same name, same cookie file.
C14_SelectionDesignatesSameProfile ==
    /\ []SelectionInRange
    /\ [][SelectionKept =>
             /\ SelectionInRange /\ SelectionInRange'
             /\ profiles'[selected_profile' + 1].name
                    = profiles[selected_profile + 1].name
             /\ profiles'[selected_profile' + 1].cookie_file
                    = profiles[selected_profile + 1].cookie_file]_vars

\* C15: a click on the tile shown at position k of the list selects index k
\* and, when the copy succeeds, leaves in the active file the content of that
\* same profile's cookie file; a click on the tile that is already selected
\* only clears the selection and copies nothing.  Positions are 1..Len here,
\* indices 0..Len-1 as in the program.
C15_ClickActsOnClickedTile ==
    [][\A k \in 1..Len(profiles) :
           ClickProfile(k) =>
               IF selected_profile = k - 1
               THEN /\ selected_profile' = None
                    /\ files' = files
               ELSE last'.copy = "ok" =>
                        /\ selected_profile' = k - 1
                        /\ files'[CurrentDir]["cookies"]
                               = files[CurrentDir][profiles[k].cookie_file]]_vars

====
